---- MODULE Spec2Model ----
(***************************************************************************)
(* NetServerTransport of ai-swarm-server: a TCP relay between a            *)
(* coordinator and phone clients.  The model follows the version of the    *)
(* class that keeps a client identity per socket and a message queue       *)
(* (src/unnamed/part_001).                                                 *)
(*                                                                         *)
(* Text on the wire is a sequence of tokens (strings): a brace, a key, a    *)
(* colon, a value, a comma, a line break.  A JS value is named by its JSON *)
(* text ("\"A\"" is the string A, "7" the number 7, "{}" an empty object);  *)
(* Undefined names the JS value undefined.                                 *)
(***************************************************************************)
EXTENDS Naturals, Sequences, FiniteSets, TLC

(* ------------------------------ bounds -------------------------------- *)
MaxConns == 2
MaxWork == 2
MaxQueue == 2
MaxStarts == 2
MaxFrames == 2
MaxWire == 12

VARIABLES
    server,          \* net.Server: "closed" | "binding" (listen() called, its outcome
                     \* not yet reported) | "failed" (listen() called again after a
                     \* bind that failed) | "listening" | "crashed"
    transportReady,  \* this.transportReady
    clients,         \* this.clients, in push order
    sock,            \* per socket: "none" (not accepted yet) | "open" | "ended" (the
                     \* peer ended it) | "failing" (its 'error' is due) | "closed"
    clientId,        \* socket.clientId
    messageQueue,    \* this.messageQueue
    pending,         \* tool invocations awaiting mcpServerInstance.callTool
    calls,           \* number of callTool invocations made so far
    starts,          \* number of start() calls made so far
    listeners,       \* 'listening' callbacks registered by start() and not yet run
    sends,           \* number of send operations called so far
    probes,          \* number of HTTP probes answered so far
    out,             \* per socket: the socket.write calls, in order
    events,          \* console lines, callbacks and early returns of the latest operation
    feed,            \* codec run: chunks still to arrive on socket 1
    frames,          \* codec run: the frames the chunks of feed reassemble to
    handled          \* codec run: messages the data handler parsed, in order

vars == <<server, transportReady, clients, sock, clientId, messageQueue,
          pending, calls, starts, listeners, sends, probes, out, events, feed, frames, handled>>

codecVars == <<feed, frames, handled>>

(* ------------------------------ values -------------------------------- *)
Undefined == "undefined"
Null == "null"
StrA == "\"A\""
StrB == "\"B\""
StrEmpty == "\"\""

Keys == <<"type", "clientId", "userId", "tool_id", "args", "result", "error">>
KeySet == {Keys[i] : i \in DOMAIN Keys}

\* the text of a key of a JSON object: a JSON string
KeyTok(k) == "\"" \o k \o "\""
KeyToks == {KeyTok(k) : k \in KeySet}

Conns == 1..MaxConns
ClientIds == {StrA, StrB}
Payloads == {ToString(p) : p \in 1..MaxWork}   \* JSON numbers 1, 2, ...
ToolIds == {"\"t" \o ToString(n) \o "\"" : n \in 1..MaxWork}
JsonStrings == ToolIds \cup {StrA, StrB, StrEmpty, "\"u1\"",
                "\"register_client\"", "\"tool_request\"", "\"tool_response\"",
                "\"user_client_map\"", "\"ping\"", "\"boom\"", "\"ok\""}
                \cup KeyToks
Falsy == {Undefined, Null, "0", "false", StrEmpty}

\* a test that takes every value but undefined for truthy
Truthy_Defined(v) == v # Undefined

Truthy(v) == v \notin Falsy
\* a type test that takes every value for a string
TypeofString_Any(v) == TRUE

TypeofString(v) == v \in JsonStrings

(* --------------------------- text and JSON ---------------------------- *)
Whitespace == {"\n", "\r", " "}

RECURSIVE TrimStart(_)
TrimStart(s) ==
    IF s # <<>> /\ Head(s) \in Whitespace THEN TrimStart(Tail(s)) ELSE s

RECURSIVE TrimEnd(_)
TrimEnd(s) ==
    IF s # <<>> /\ s[Len(s)] \in Whitespace
    THEN TrimEnd(SubSeq(s, 1, Len(s) - 1)) ELSE s

\* a trim that removes nothing
Trim_None(s) == s

\* String.prototype.trim
Trim(s) == TrimEnd(TrimStart(s))

\* String.prototype.startsWith, for a one-token prefix
StartsWith(s, prefix) == s # <<>> /\ Head(s) = prefix

FieldVals == JsonStrings \cup Payloads \cup {Null, "0", "false", "7", "{}"}

\* JSON.stringify of the members of an object given as a record over Keys,
\* each preceded by a comma: members whose value is undefined are left out
RECURSIVE Members(_, _)
Members(obj, i) ==
    IF i > Len(Keys) THEN <<>>
    ELSE (IF obj[Keys[i]] = Undefined THEN <<>>
          ELSE <<",", KeyTok(Keys[i]), ":", obj[Keys[i]]>>) \o Members(obj, i + 1)

JSONstringifyObject(obj) ==
    LET m == Members(obj, 1)
    IN  <<"{">> \o (IF m = <<>> THEN <<>> ELSE Tail(m)) \o <<"}">>

\* JSON.stringify of a scalar value
JSONstringify(v) == <<v>>

EmptyObject == [k \in KeySet |-> Undefined]
Obj(fields) == [k \in KeySet |-> IF k \in DOMAIN fields THEN fields[k] ELSE Undefined]

\* the key a key text spells
KeyTable == {<<KeyTok(k), k>> : k \in KeySet}
KeyOf(t) == (CHOOSE e \in KeyTable : e[1] = t)[2]

\* the text between the braces of an object: key : value , key : value ...
IsMembers(m) ==
    \/ m = <<>>
    \/ /\ Len(m) % 4 = 3
       /\ \A i \in DOMAIN m :
            CASE i % 4 = 1 -> m[i] \in KeyToks
              [] i % 4 = 2 -> m[i] = ":"
              [] i % 4 = 3 -> m[i] \in FieldVals
              [] OTHER -> m[i] = ","

SyntaxError == [kind |-> "SyntaxError", value |-> Undefined, obj |-> EmptyObject]

\* JSON.parse: one complete document (a scalar, a string included, or an
\* object, whose last member of a key wins) or a SyntaxError
JSONparse(s) ==
    IF Len(s) = 1 /\ s[1] \in FieldVals
    THEN [kind |-> "scalar", value |-> s[1], obj |-> EmptyObject]
    ELSE IF /\ Len(s) >= 2
            /\ s[1] = "{"
            /\ s[Len(s)] = "}"
            /\ IsMembers(SubSeq(s, 2, Len(s) - 1))
    THEN LET m == SubSeq(s, 2, Len(s) - 1)
             at(k) == {i \in DOMAIN m : i % 4 = 1 /\ KeyOf(m[i]) = k}
         IN  [kind |-> "object", value |-> Undefined,
              obj |-> [k \in KeySet |->
                         IF at(k) = {} THEN Undefined
                         ELSE m[(CHOOSE i \in at(k) : \A j \in at(k) : j <= i) + 2]]]
    ELSE SyntaxError

(* ------------------------------ inputs -------------------------------- *)
TRegister == "\"register_client\""
TToolRequest == "\"tool_request\""
TToolResponse == "\"tool_response\""
TUserClientMap == "\"user_client_map\""

RegisterFrame(id) == JSONstringifyObject(Obj([type |-> TRegister, clientId |-> id]))
CorrelateFrame(u, id) ==
    JSONstringifyObject(Obj([type |-> TUserClientMap, userId |-> u, clientId |-> id]))
ToolFrame(t, a) == JSONstringifyObject(Obj([type |-> TToolRequest, tool_id |-> t, args |-> a]))
PingFrame == JSONstringifyObject(Obj([type |-> "\"ping\""]))

HttpPrefixes == {"HEAD /", "GET /", "POST /"}
HttpLine(verb) == <<verb, "healthz HTTP/1.1", "\r", "\n">>
HttpReply == <<"HTTP/1.1 200 OK", "\r", "\n", "Content-Length: 0", "\r", "\n", "\r", "\n">>

Line(f) == f \o <<"\n">>

\* what callTool resolves with: a value, null or nothing
ToolResults == {"\"ok\"", Null, Undefined}

\* what the promise of callTool rejects with, or callTool throws: an Error that has a message, a
\* string, null or undefined
ErrorBoom == "Error(boom)"
ToolErrors == {ErrorBoom, "\"boom\"", Null, Undefined}

\* toolError.message: reading it throws a TypeError for null and undefined,
\* and a string has none
MessageThrows(e) == e \in {Null, Undefined}
MessageOf(e) == IF e = ErrorBoom THEN "\"boom\"" ELSE Undefined

\* the JSON frames a client sends
GoodFrames ==
    {RegisterFrame(id) : id \in ClientIds}
        \cup {CorrelateFrame("\"u1\"", StrA)}
        \cup {ToolFrame(t, "{}") : t \in ToolIds}
        \cup {PingFrame}

\* the chunks a 'data' event may carry in the main specification
Chunks ==
    {Line(f) : f \in GoodFrames}
        \cup {Line(RegisterFrame("7")),
              Line(ToolFrame(Undefined, "{}")), Line(ToolFrame("\"t1\"", Undefined)),
              Line(ToolFrame(StrEmpty, "{}")), Line(ToolFrame("\"t1\"", "0")),
              <<"null", "\n">>, <<"7", "\n">>,
              <<"hello", "\n">>, <<"PUT /", "x HTTP/1.1", "\r", "\n">>,
              <<"\n">>, <<" ", "\r", "\n">>,
              Line(RegisterFrame(StrA)) \o Line(PingFrame),
              SubSeq(RegisterFrame(StrA), 1, 4), <<StrA>>}
        \cup {HttpLine(v) : v \in HttpPrefixes}

\* codec run: the frames a client sends, their text on the wire, and every
\* way TCP may cut that text into chunks
CodecFrames == {RegisterFrame(StrA), RegisterFrame(StrB), PingFrame}

RECURSIVE Wire(_)
Wire(fs) == IF fs = <<>> THEN <<>> ELSE Line(Head(fs)) \o Wire(Tail(fs))

\* up to MaxFrames frames whose text is at most MaxWire tokens long
FrameSeqs ==
    {fs \in UNION {[1..n -> CodecFrames] : n \in 0..MaxFrames} : Len(Wire(fs)) <= MaxWire}

RECURSIVE Splits(_)
Splits(w) ==
    IF w = <<>> THEN {<<>>}
    ELSE UNION {{<<SubSeq(w, 1, k)>> \o rest : rest \in Splits(SubSeq(w, k + 1, Len(w)))} :
                  k \in 1..Len(w)}

CodecChunks ==
    UNION {{SubSeq(Wire(fs), i, j) : i, j \in 1..Len(Wire(fs))} : fs \in FrameSeqs} \ {<<>>}

AllChunks == Chunks \cup CodecChunks

(* ------------------------------- state -------------------------------- *)
NoClient == 0

\* the inputs that make the transport write or queue, counted against MaxWork
Work == sends + calls + probes

StringItem(msg) == [isString |-> TRUE, text |-> msg, clientId |-> Undefined, data |-> Undefined]
TargetItem(id, data) == [isString |-> FALSE, text |-> <<>>, clientId |-> id, data |-> data]

Written(text, c) == [text |-> text, live |-> sock[c] = "open"]

InClients(c) == \E i \in DOMAIN clients : clients[i] = c

\* list.find(c => c.clientId === id), NoClient when find returns undefined
FindIn(list, ids, id) ==
    IF \E i \in DOMAIN list : ids[list[i]] = id
    THEN list[CHOOSE i \in DOMAIN list :
                 /\ ids[list[i]] = id
                 /\ \A j \in 1..(i - 1) : ids[list[j]] # id]
    ELSE NoClient

\* the first connected client, whatever its identity
Find_First(id) == IF clients = <<>> THEN NoClient ELSE clients[1]

\* this.clients.find(c => c.clientId === id)
Find(id) == FindIn(clients, clientId, id)

\* a filter that removes nothing
Without_Keeps(c) == clients

\* this.clients.filter(c => c !== socket)
Without(c) == SelectSeq(clients, LAMBDA x : x # c)

ProgramInit ==
    /\ server = "closed"
    /\ transportReady = FALSE
    /\ clients = <<>>
    /\ sock = [c \in Conns |-> "none"]
    /\ clientId = [c \in Conns |-> Undefined]
    /\ messageQueue = <<>>
    /\ pending = {}
    /\ calls = 0
    /\ starts = 0
    /\ listeners = 0
    /\ sends = 0
    /\ probes = 0
    /\ out = [c \in Conns |-> <<>>]
    /\ events = <<>>

Init ==
    /\ ProgramInit
    /\ feed = <<>>
    /\ frames = <<>>
    /\ handled = <<>>

(* -------------------------- the data handler -------------------------- *)
\* JSON.parse threw, or reading .type of the parsed value threw (null)
Throws(parsed) ==
    parsed.kind = "SyntaxError" \/ (parsed.kind = "scalar" /\ parsed.value = Null)

\* a probe test that takes every unparsable text for a probe
IsHttp_Any(raw) == TRUE

\* the probe test without its POST case
IsHttp_NoPost(raw) == StartsWith(raw, "HEAD /") \/ StartsWith(raw, "GET /")

\* rawMessage.startsWith('HEAD /') || ... 'GET /' || ... 'POST /'
IsHttp(raw) ==
    StartsWith(raw, "HEAD /") \/ StartsWith(raw, "GET /") \/ StartsWith(raw, "POST /")

\* a handler that answers a message of unknown type like a probe
Branch_UnknownAsProbe(chunk) ==
    LET raw == Trim(chunk)
        parsed == JSONparse(raw)
        msg == parsed.obj
    IN  IF raw = <<>> THEN "empty"
        ELSE IF Throws(parsed) THEN (IF IsHttp(raw) THEN "http" ELSE "parse_error")
        ELSE IF msg["type"] = TRegister /\ TypeofString(msg["clientId"]) THEN "register"
        ELSE IF msg["type"] = TToolRequest
             THEN (IF Truthy(msg["tool_id"]) /\ Truthy(msg["args"]) THEN "invoke" ELSE "skip")
        ELSE "http"

\* which branch of socket.on('data') a chunk takes
Branch(chunk) ==
    LET raw == Trim(chunk)
        parsed == JSONparse(raw)
        msg == parsed.obj
    IN  IF raw = <<>> THEN "empty"
        ELSE IF Throws(parsed) THEN (IF IsHttp(raw) THEN "http" ELSE "parse_error")
        ELSE IF msg["type"] = TRegister /\ TypeofString(msg["clientId"]) THEN "register"
        ELSE IF msg["type"] = TToolRequest
             THEN (IF Truthy(msg["tool_id"]) /\ Truthy(msg["args"]) THEN "invoke" ELSE "skip")
        ELSE "unknown"

Message(chunk) == JSONparse(Trim(chunk)).obj

\* the handler's reading of every chunk of the model, computed once
Handling == [chunk \in AllChunks |-> [branch |-> Branch(chunk), msg |-> Message(chunk)]]

Invocation(c, t) == [conn |-> c, tool_id |-> t]

\* the payload of the next send operation, the tool_id of the next request:
\* every send carries a fresh payload and every request a fresh tool_id
NextPayload == ToString(sends + 1)
ToolIdOf(n) == "\"t" \o ToString(n) \o "\""
NextToolId == ToolIdOf(calls + 1)

ToolResponse(t, result, error) ==
    JSONstringifyObject(Obj([type |-> TToolResponse, tool_id |-> t,
                             result |-> result, error |-> error])) \o <<"\n">>

\* the catch (toolError) block for invocation i and reason e: what has been
\* written after it, and what it logs; when reading toolError.message
\* throws, the outer catch reports a parse failure and nothing is written
CaughtOut(i, e) ==
    IF MessageThrows(e) THEN out
    ELSE [out EXCEPT ![i.conn] =
            Append(@, Written(ToolResponse(i.tool_id, Undefined, MessageOf(e)), i.conn))]

CaughtEvents(e) == IF MessageThrows(e) THEN <<"error:parse">> ELSE <<"error:tool">>

\* socket.on('data') but for the identity: the handler up to its return or
\* to the await of callTool.  callTool returns a promise, and the handler
\* is suspended, or throws, and the catch block runs before the handler
\* returns
Dispatch(c, chunk) ==
    LET b == Handling[chunk].branch
        msg == Handling[chunk].msg
    IN  /\ sock[c] = "open"
        /\ b = "invoke" => Work < MaxWork /\ msg["tool_id"] = NextToolId
        /\ b = "http" => Work < MaxWork
        /\ calls' = IF b = "invoke" THEN calls + 1 ELSE calls
        /\ probes' = IF b = "http" THEN probes + 1 ELSE probes
        /\ IF b = "invoke"
           THEN \/ /\ pending' = pending \cup {Invocation(c, msg["tool_id"])}
                   /\ out' = out
                   /\ events' = <<>>
                \/ \E e \in ToolErrors :
                       /\ pending' = pending
                       /\ out' = CaughtOut(Invocation(c, msg["tool_id"]), e)
                       /\ events' = CaughtEvents(e)
           ELSE /\ pending' = pending
                /\ out' = IF b = "http"
                          THEN [out EXCEPT ![c] = Append(@, Written(HttpReply, c))]
                          ELSE out
                /\ events' = CASE b = "register" -> <<"log:registered">>
                               [] b = "unknown" -> <<"warn:unknown">>
                               [] b = "http" -> <<"warn:http">>
                               [] b = "parse_error" -> <<"error:parse">>
                               [] b = "empty" -> <<"return:empty">>
                               [] b = "skip" -> <<"return:skipped">>
                               [] OTHER -> <<>>
        /\ UNCHANGED <<server, transportReady, clients, sock, messageQueue,
                       starts, listeners, sends>>

\* socket.clientId after the handler: set by a register_client message
Registered(c, chunk) ==
    IF Handling[chunk].branch = "register"
    THEN [clientId EXCEPT ![c] = Handling[chunk].msg["clientId"]] ELSE clientId

\* a handler that takes no frame of a socket while one of its invocations is pending
OnData_Blocking(c, chunk) ==
    /\ \A i \in pending : i.conn # c
    /\ Dispatch(c, chunk)
    /\ clientId' = Registered(c, chunk)

\* a handler that keeps the first identity a socket registered
OnData_FirstIdentitySticks(c, chunk) ==
    /\ Dispatch(c, chunk)
    /\ clientId' = IF clientId[c] = Undefined THEN Registered(c, chunk) ELSE clientId

\* socket.on('data'), up to its return or to the await of callTool
OnData(c, chunk) ==
    /\ Dispatch(c, chunk)
    /\ clientId' = Registered(c, chunk)

Data == \E c \in Conns, chunk \in Chunks : OnData(c, chunk) /\ UNCHANGED codecVars

\* the socket after socket.write of a settled invocation: on a socket the
\* peer has ended the write fails (EPIPE) and the 'error' event is due,
\* unless the socket has been destroyed by then; a second write to a failing
\* socket, like a write to a destroyed one, is refused in silence
AfterWrite(c) == IF sock[c] = "ended" THEN {"failing", "closed"} ELSE {sock[c]}

\* callTool resolved: the code after the await
ToolResolve ==
    \E i \in pending, r \in ToolResults :
        /\ server # "crashed"
        /\ pending' = pending \ {i}
        /\ out' = [out EXCEPT ![i.conn] =
                     Append(@, Written(ToolResponse(i.tool_id, r, Undefined), i.conn))]
        /\ \E after \in AfterWrite(i.conn) : sock' = [sock EXCEPT ![i.conn] = after]
        /\ events' = <<>>
        /\ UNCHANGED <<server, transportReady, clients, clientId, messageQueue,
                       calls, starts, listeners, sends, probes, codecVars>>

\* the promise of callTool rejected: the catch (toolError) block, after the
\* await
ToolReject ==
    \E i \in pending, e \in ToolErrors :
        /\ server # "crashed"
        /\ pending' = pending \ {i}
        /\ out' = CaughtOut(i, e)
        /\ events' = CaughtEvents(e)
        /\ IF MessageThrows(e) THEN sock' = sock
           ELSE \E after \in AfterWrite(i.conn) : sock' = [sock EXCEPT ![i.conn] = after]
        /\ UNCHANGED <<server, transportReady, clients, clientId, messageQueue,
                       calls, starts, listeners, sends, probes, codecVars>>

(* ------------------------- socket life cycle -------------------------- *)
\* net.createServer callback: a client connected
Connect ==
    /\ server = "listening"
    /\ \E c \in Conns :
        /\ sock[c] = "none"
        /\ \A d \in Conns : d < c => sock[d] # "none"
        /\ sock' = [sock EXCEPT ![c] = "open"]
        /\ clients' = Append(clients, c)
    /\ events' = <<"log:connected">>
    /\ UNCHANGED <<server, transportReady, clientId, messageQueue, pending, calls,
                   starts, listeners, sends, probes, out, codecVars>>

\* socket.on('end')
End ==
    \E c \in Conns :
        /\ sock[c] = "open"
        /\ server # "crashed"
        /\ sock' = [sock EXCEPT ![c] = "ended"]
        /\ clients' = Without(c)
        /\ events' = <<"log:disconnected">>
        /\ UNCHANGED <<server, transportReady, clientId, messageQueue, pending, calls,
                       starts, listeners, sends, probes, out, codecVars>>

\* a write made while the socket was open may still be in flight
WriteInFlight(c) == \E j \in DOMAIN out[c] : out[c][j].live

\* socket.on('error'): a failure of a connected socket, the failed write to
\* a socket the peer had ended, or the failure of a write that was in flight
\* when the peer ended the socket
SocketError ==
    \E c \in Conns :
        /\ \/ sock[c] \in {"open", "failing"}
           \/ sock[c] = "ended" /\ WriteInFlight(c)
        /\ server # "crashed"
        /\ sock' = [sock EXCEPT ![c] = "closed"]
        /\ clients' = Without(c)
        /\ events' = <<"error:socket">>
        /\ UNCHANGED <<server, transportReady, clientId, messageQueue, pending, calls,
                       starts, listeners, sends, probes, out, codecVars>>

(* --------------------------- send and flush --------------------------- *)
\* sendToAllPhones as a send that reaches registered clients only
SendToAllPhonesCall_RegisteredOnly(data) ==
        LET msg == JSONstringify(data) \o <<"\n">>
            queue == ~transportReady \/ Len(clients) = 0
        IN  /\ server # "crashed"
            /\ Work < MaxWork
            /\ queue => Len(messageQueue) < MaxQueue
            /\ sends' = sends + 1
            /\ messageQueue' = IF queue THEN Append(messageQueue, StringItem(msg))
                               ELSE messageQueue
            /\ out' = IF queue THEN out
                      ELSE [c \in Conns |->
                              IF InClients(c) /\ clientId[c] # Undefined
                              THEN Append(out[c], Written(msg, c))
                              ELSE out[c]]
            /\ events' = IF queue THEN <<"warn:queued">> ELSE <<"log:sent">>
            /\ UNCHANGED <<server, transportReady, clients, sock, clientId, pending,
                           calls, starts, listeners, probes, codecVars>>

\* sendToAllPhones(data)
SendToAllPhonesCall(data) ==
        LET msg == JSONstringify(data) \o <<"\n">>
            queue == ~transportReady \/ Len(clients) = 0
        IN  /\ server # "crashed"
            /\ Work < MaxWork
            /\ queue => Len(messageQueue) < MaxQueue
            /\ sends' = sends + 1
            /\ messageQueue' = IF queue THEN Append(messageQueue, StringItem(msg))
                               ELSE messageQueue
            /\ out' = IF queue THEN out
                      ELSE [c \in Conns |->
                              IF InClients(c) THEN Append(out[c], Written(msg, c))
                              ELSE out[c]]
            /\ events' = IF queue THEN <<"warn:queued">> ELSE <<"log:sent">>
            /\ UNCHANGED <<server, transportReady, clients, sock, clientId, pending,
                           calls, starts, listeners, probes, codecVars>>

SendToAllPhones == SendToAllPhonesCall(NextPayload)

\* sendToPhone as a send that gives up when the client is not found
SendToPhoneCall_Drops(id, data) ==
        LET client == Find(id)
            msg == JSONstringify(data) \o <<"\n">>
        IN  /\ server # "crashed"
            /\ Work < MaxWork
            /\ sends' = sends + 1
            /\ out' = IF client = NoClient THEN out
                      ELSE [out EXCEPT ![client] = Append(@, Written(msg, client))]
            /\ events' = IF client = NoClient THEN <<"warn:not-found">>
                          ELSE <<"log:sent-to-client">>
            /\ UNCHANGED <<server, transportReady, clients, sock, clientId, messageQueue,
                           pending, calls, starts, listeners, probes, codecVars>>

\* sendToPhone(id, data)
SendToPhoneCall(id, data) ==
        LET client == Find(id)
            msg == JSONstringify(data) \o <<"\n">>
        IN  /\ server # "crashed"
            /\ Work < MaxWork
            /\ client = NoClient => Len(messageQueue) < MaxQueue
            /\ sends' = sends + 1
            /\ messageQueue' = IF client = NoClient
                               THEN Append(messageQueue, TargetItem(id, data))
                               ELSE messageQueue
            /\ out' = IF client = NoClient THEN out
                      ELSE [out EXCEPT ![client] = Append(@, Written(msg, client))]
            /\ events' = IF client = NoClient THEN <<"warn:not-found-queued">>
                          ELSE <<"log:sent-to-client">>
            /\ UNCHANGED <<server, transportReady, clients, sock, clientId, pending,
                           calls, starts, listeners, probes, codecVars>>

\* the data of a targeted send: a fresh payload or, once, the number 0
ZeroSent ==
    \/ \E k \in DOMAIN messageQueue : messageQueue[k].data = "0"
    \/ \E c \in Conns : \E j \in DOMAIN out[c] : out[c][j].text = <<"0", "\n">>

SendPayloads == {NextPayload} \cup (IF ZeroSent THEN {} ELSE {"0"})

SendToPhone == \E id \in ClientIds, data \in SendPayloads : SendToPhoneCall(id, data)

\* a flush that retains nothing
Retained_Never(item) == FALSE

\* flushMessageQueue: does the loop push the item to remainingQueue?
Retained(item) ==
    IF item.isString THEN Len(clients) = 0
    ELSE IF Truthy(item.clientId) /\ Truthy(item.data) THEN Find(item.clientId) = NoClient
    ELSE TRUE

\* flushMessageQueue: the text the loop writes to socket c for the item
FlushText(item) ==
    IF item.isString THEN item.text ELSE JSONstringify(item.data) \o <<"\n">>

FlushedTo(item, c) ==
    /\ ~Retained(item)
    /\ IF item.isString THEN InClients(c) ELSE Find(item.clientId) = c

\* flushMessageQueue: the queue it leaves
FlushRemaining(q) == SelectSeq(q, Retained)

\* flushMessageQueue: what it writes to socket c, in order
RECURSIVE FlushWritten(_, _)
FlushWritten(q, c) ==
    IF q = <<>> THEN <<>>
    ELSE (IF FlushedTo(Head(q), c) THEN <<Written(FlushText(Head(q)), c)>> ELSE <<>>)
             \o FlushWritten(Tail(q), c)

\* flushMessageQueue: the console lines of the loop, one per delivered item
RECURSIVE FlushLogs(_)
FlushLogs(q) ==
    IF q = <<>> THEN <<>>
    ELSE (IF Retained(Head(q)) THEN <<>>
          ELSE IF Head(q).isString THEN <<"log:flushed-broadcast">>
          ELSE <<"log:flushed-targeted">>) \o FlushLogs(Tail(q))

(* --------------------------- start and stop --------------------------- *)
\* start(): server.listen(port, callback).  listen throws while the server
\* has a handle, and start() has no effect then.  A bind that failed left no
\* handle: until its 'error' is emitted, start() can be called again, and
\* registers one more callback
StartListen ==
    /\ server \in {"closed", "binding", "failed"}
    /\ starts < MaxStarts
    /\ server' = IF server = "closed" THEN "binding" ELSE "failed"
    /\ starts' = starts + 1
    /\ listeners' = listeners + 1
    /\ events' = <<>>
    /\ UNCHANGED <<transportReady, clients, sock, clientId, messageQueue, pending,
                   calls, sends, probes, out, codecVars>>

RECURSIVE CallbackEvents(_)
CallbackEvents(n) ==
    IF n = 0 THEN <<>>
    ELSE <<"log:listening", "onReady", "flush", "resolve">> \o CallbackEvents(n - 1)

RECURSIVE FlushTimes(_, _)
FlushTimes(n, q) == IF n = 0 THEN q ELSE FlushTimes(n - 1, FlushRemaining(q))

RECURSIVE WrittenTimes(_, _, _)
WrittenTimes(n, q, c) ==
    IF n = 0 THEN <<>>
    ELSE FlushWritten(q, c) \o WrittenTimes(n - 1, FlushRemaining(q), c)

\* the 'listening' event: every registered callback of start() runs
ListenCallback ==
    /\ server = "binding"
    /\ server' = "listening"
    /\ transportReady' = TRUE
    /\ listeners' = 0
    /\ messageQueue' = FlushTimes(listeners, messageQueue)
    /\ out' = [c \in Conns |-> out[c] \o WrittenTimes(listeners, messageQueue, c)]
    /\ events' = CallbackEvents(listeners)
    /\ UNCHANGED <<clients, sock, clientId, pending, calls, starts, sends, probes, codecVars>>

\* listen() of a start() may have failed: the server's 'error' event is
\* emitted on the next tick, also when dispose() has closed the server by then
ErrorDue == server \in {"binding", "failed"} \/ (server = "closed" /\ listeners > 0)

\* a failed bind after which the listen callback runs all the same
BindFail_CallbackRuns ==
    /\ ErrorDue
    /\ server' = "crashed"
    /\ transportReady' = TRUE
    /\ listeners' = 0
    /\ events' = <<"uncaught:error">> \o CallbackEvents(listeners)
    /\ UNCHANGED <<clients, sock, clientId, messageQueue, pending, calls, starts,
                   sends, probes, out, codecVars>>

\* the bind failed: the server emits 'error', which has no listener
BindFail ==
    /\ ErrorDue
    /\ server' = "crashed"
    /\ events' = <<"uncaught:error">>
    /\ UNCHANGED <<transportReady, clients, sock, clientId, messageQueue, pending,
                   calls, starts, listeners, sends, probes, out, codecVars>>

\* dispose() without the reset of the queue
Dispose_KeepsQueue ==
    /\ server # "crashed"
    /\ server' = "closed"
    /\ sock' = [c \in Conns |-> IF InClients(c) THEN "closed" ELSE sock[c]]
    /\ clients' = <<>>
    /\ transportReady' = FALSE
    /\ events' = <<"log:disposed">>
    /\ UNCHANGED <<clientId, messageQueue, pending, calls, starts, listeners, sends,
                   probes, out, codecVars>>

\* dispose() that leaves the connected sockets alone
Dispose_LeavesClients ==
    /\ server # "crashed"
    /\ server' = "closed"
    /\ transportReady' = FALSE
    /\ messageQueue' = <<>>
    /\ events' = <<"log:disposed">>
    /\ UNCHANGED <<clients, sock, clientId, pending, calls, starts, listeners, sends,
                   probes, out, codecVars>>

\* dispose()
Dispose ==
    /\ server # "crashed"
    /\ server' = "closed"
    /\ sock' = [c \in Conns |-> IF InClients(c) THEN "closed" ELSE sock[c]]
    /\ clients' = <<>>
    /\ transportReady' = FALSE
    /\ messageQueue' = <<>>
    /\ events' = <<"log:disposed">>
    /\ UNCHANGED <<clientId, pending, calls, starts, listeners, sends, probes, out, codecVars>>

\* sendMessage(message): warns and does nothing
SendMessage ==
    /\ server # "crashed"
    /\ events' = <<"warn:sendMessage">>
    /\ UNCHANGED <<server, transportReady, clients, sock, clientId, messageQueue, pending,
                   calls, starts, listeners, sends, probes, out, codecVars>>

Next ==
    \/ StartListen
    \/ ListenCallback
    \/ BindFail
    \/ Dispose
    \/ Connect
    \/ Data
    \/ End
    \/ SocketError
    \/ ToolResolve
    \/ ToolReject
    \/ SendToAllPhones
    \/ SendToPhone
    \/ SendMessage

Spec == Init /\ [][Next]_vars

TypeOK ==
    /\ server \in {"closed", "binding", "failed", "listening", "crashed"}
    /\ \A c \in Conns : sock[c] \in {"none", "open", "ended", "failing", "closed"}
    /\ transportReady \in BOOLEAN
    /\ \A i \in DOMAIN clients : clients[i] \in Conns /\ sock[clients[i]] = "open"
    /\ Len(messageQueue) <= MaxQueue
    /\ Work <= MaxWork

(* ----------------------------- codec run ------------------------------ *)
\* One client sends the frames of `frames`; TCP delivers their text cut into
\* the chunks of `feed`; `handled` collects what the data handler parsed.
CodecInit ==
    /\ ProgramInit
    /\ frames \in FrameSeqs
    /\ feed \in Splits(Wire(frames))
    /\ handled = <<>>

\* the message JSON.parse returned for the chunk, if it returned one
Parsed(chunk) ==
    IF Handling[chunk].branch \in {"register", "invoke", "skip", "unknown"}
    THEN <<Handling[chunk].msg>> ELSE <<>>

FeedChunk ==
    /\ feed # <<>>
    /\ OnData(1, Head(feed))
    /\ feed' = Tail(feed)
    /\ handled' = handled \o Parsed(Head(feed))
    /\ frames' = frames

CodecNext ==
    \/ StartListen
    \/ ListenCallback
    \/ (Connect /\ clients = <<>>)
    \/ FeedChunk

CodecSpec == CodecInit /\ [][CodecNext]_vars

(* ----------------------------- flush run ------------------------------ *)
\* flushMessageQueue is private and start() calls it before any client can
\* connect.  The flush run calls it in every state the transport reaches, so
\* that one pass over a queue is seen with clients connected.
Flush ==
    /\ server # "crashed"
    /\ messageQueue' = IF transportReady THEN FlushRemaining(messageQueue) ELSE messageQueue
    /\ out' = IF transportReady
              THEN [c \in Conns |-> out[c] \o FlushWritten(messageQueue, c)] ELSE out
    /\ events' = IF transportReady THEN <<"flush">> \o FlushLogs(messageQueue) ELSE <<>>
    /\ UNCHANGED <<server, transportReady, clients, sock, clientId, pending, calls,
                   starts, listeners, sends, probes, codecVars>>

FlushNext ==
    \/ Next
    \/ Flush

FlushSpec == Init /\ [][FlushNext]_vars

(* ------------------------------- claims ------------------------------- *)

\* chunks that carry exactly one complete frame
RegisterChunk == [id \in ClientIds |-> Line(RegisterFrame(id))]
CorrelateChunk == Line(CorrelateFrame("\"u1\"", StrA))
PingChunk == Line(PingFrame)

\* C1: when every chunk of a stream of N complete newline-terminated frames
\* has arrived, the data handler has parsed exactly those N messages, in
\* order, whatever the chunk boundaries were.
C1_ChunksReassemble ==
    (feed = <<>> /\ sock[1] = "open") =>
        handled = [i \in 1..Len(frames) |-> JSONparse(frames[i]).obj]

Range(q) == {q[k] : k \in DOMAIN q}

\* how often socket c was written the text
Count(c, text) == Cardinality({j \in DOMAIN out[c] : out[c][j].text = text})
CountNext(c, text) == Cardinality({j \in DOMAIN out'[c] : out'[c][j].text = text})

\* C2: when a connection registers an identity that no live connection
\* held, the registration flushes the queue: every targeted entry queued
\* for that identity is written to the connection exactly once and is no
\* longer in the queue.
C2_RegistrationFlushes ==
    [][\A c \in Conns, id \in ClientIds :
        (Find(id) = NoClient /\ OnData(c, RegisterChunk[id])) =>
            \A item \in Range(messageQueue) :
                (~item.isString /\ item.clientId = id) =>
                    /\ item \notin Range(messageQueue')
                    /\ CountNext(c, JSONstringify(item.data) \o <<"\n">>) = 1]_vars

\* C3: a broadcast with zero live connections is fire-and-forget: the call
\* writes to no socket and leaves the queue unchanged, so that its payload,
\* which no other send carries, is kept nowhere and no socket, one that
\* connects later included, can ever be written it.
C3_BroadcastNoLiveLeavesQueue ==
    [][(SendToAllPhones /\ Len(clients) = 0) =>
          /\ out' = out
          /\ messageQueue' = messageQueue
          /\ \A k \in DOMAIN messageQueue' :
                messageQueue'[k].isString =>
                    messageQueue'[k].text # <<ToString(sends + 1), "\n">>]_vars

Last(q) == q[Len(q)]

\* the object a written frame spells
Frame(w) == JSONparse(Trim(w.text)).obj

\* the step appends exactly one write to socket c and none to any other
OneWriteTo(c) ==
    /\ Len(out'[c]) = Len(out[c]) + 1
    /\ SubSeq(out'[c], 1, Len(out[c])) = out[c]
    /\ \A d \in Conns \ {c} : out'[d] = out[d]

\* the chunk that carries one complete tool_request for tool_id t
ToolChunk == [t \in ToolIds |-> Line(ToolFrame(t, "{}"))]

\* C4: when callTool fails (rejects or throws) for a request with tool_id
\* t, exactly one frame {type: tool_response, tool_id: t, error: message}
\* is written to the requesting socket, a socket that was open is neither
\* closed nor removed from the clients, and every open socket still has its
\* frames processed.
C4_ToolFailureAnswered ==
    /\ [][\A i \in pending :
            (i \notin pending' /\ events' \in {<<"error:tool">>, <<"error:parse">>}) =>
                /\ OneWriteTo(i.conn)
                /\ Frame(Last(out'[i.conn]))["type"] = "\"tool_response\""
                /\ Frame(Last(out'[i.conn]))["tool_id"] = i.tool_id
                /\ Frame(Last(out'[i.conn]))["error"] \in JsonStrings
                /\ Frame(Last(out'[i.conn]))["result"] = Undefined
                /\ Last(Last(out'[i.conn]).text) = "\n"
                /\ clients' = clients
                /\ sock[i.conn] = "open" => sock'[i.conn] = "open"
                /\ clientId' = clientId]_vars
    /\ [][\A c \in Conns, t \in ToolIds :
            (OnData(c, ToolChunk[t]) /\ pending' = pending) =>
                /\ OneWriteTo(c)
                /\ Frame(Last(out'[c]))["type"] = "\"tool_response\""
                /\ Frame(Last(out'[c]))["tool_id"] = t
                /\ Frame(Last(out'[c]))["error"] \in JsonStrings
                /\ Frame(Last(out'[c]))["result"] = Undefined
                /\ clients' = clients
                /\ sock' = sock
                /\ sock'[c] = "open"]_vars
    /\ [](\A c \in Conns :
            sock[c] = "open" =>
                ENABLED (OnData(c, RegisterChunk[StrB]) /\ UNCHANGED codecVars))

\* the chunks of the model that begin with an HTTP request line
ProbeChunks ==
    {chunk \in Chunks :
        Trim(chunk) # <<>> /\ Head(Trim(chunk)) \in {"GET /", "HEAD /", "POST /"}}

\* C5: a chunk whose text begins with 'GET /', 'HEAD /' or 'POST /' is
\* answered on the same socket with exactly the literal 200 reply; the
\* socket stays open and in the clients, and the input is not reported as
\* a parse failure.
C5_HttpProbeAnswered ==
    [][\A c \in Conns, chunk \in ProbeChunks :
        OnData(c, chunk) =>
            /\ OneWriteTo(c)
            /\ Last(out'[c]) =
                 [text |-> <<"HTTP/1.1 200 OK", "\r", "\n",
                             "Content-Length: 0", "\r", "\n", "\r", "\n">>,
                  live |-> TRUE]
            /\ clients' = clients
            /\ sock' = sock
            /\ sock'[c] = "open"
            /\ InClients(c)
            /\ events' = <<"warn:http">>]_vars

\* C5 (witness): a probe has just been answered on a socket that is still a client
C5_Witness ==
    /\ events = <<"warn:http">>
    /\ \E c \in Conns :
        /\ sock[c] = "open"
        /\ InClients(c)
        /\ out[c] # <<>>
        /\ Last(out[c]).text = HttpReply

\* C6: once a live socket c has sent register_client with clientId A, a
\* targeted send to A resolves to c; once c has ended or failed, a
\* targeted send to A does not resolve to c.
C6_RegisteredResolves ==
    /\ [][\A c \in Conns, id \in ClientIds :
            OnData(c, RegisterChunk[id]) => FindIn(clients', clientId', id) = c]_vars
    /\ [][\A c \in Conns, id \in ClientIds :
            (sock[c] = "open" /\ sock'[c] # "open") =>
                FindIn(clients', clientId', id) # c]_vars

\* C7: a user_client_map frame is recorded: handling it leaves a trace in
\* the state the transport keeps, from which the pair can be resolved later.
C7_CorrelationRecorded ==
    [][\A c \in Conns :
        OnData(c, CorrelateChunk) =>
            <<clients, clientId, messageQueue, transportReady, pending>>'
                # <<clients, clientId, messageQueue, transportReady, pending>>]_vars

\* every write so far, as <<socket, index>>
Writes == UNION {{<<c, j>> : j \in DOMAIN out[c]} : c \in Conns}

\* the objects the tool_response frames written so far spell
ResponseFrames ==
    LET all == [p \in Writes |-> Frame(out[p[1]][p[2]])]
    IN  [p \in {q \in Writes : all[q]["type"] = "\"tool_response\""} |-> all[p]]

\* C8: a tool_request with tool_id and args invokes callTool once; the
\* invocation is answered by exactly one tool_response, written to the
\* requesting socket, carrying the request's tool_id and exactly one of
\* result and error; it is never invoked or answered a second time.
C8_OneResponsePerRequest ==
    /\ [](LET rs == ResponseFrames
          IN  /\ \A n \in 1..MaxWork :
                    Cardinality({i \in pending : i.tool_id = ToolIdOf(n)})
                      + Cardinality({p \in DOMAIN rs : rs[p]["tool_id"] = ToolIdOf(n)})
                      = (IF n <= calls THEN 1 ELSE 0)
              /\ \A p \in DOMAIN rs :
                    (rs[p]["result"] = Undefined) # (rs[p]["error"] = Undefined))
    /\ [][\A i \in pending :
            i \notin pending' =>
                /\ OneWriteTo(i.conn)
                /\ Frame(Last(out'[i.conn]))["type"] = "\"tool_response\""
                /\ Frame(Last(out'[i.conn]))["tool_id"] = i.tool_id]_vars
    /\ [][\A c \in Conns, t \in ToolIds :
            OnData(c, ToolChunk[t]) =>
                /\ [conn |-> c, tool_id |-> t] \notin pending
                /\ calls' = calls + 1
                /\ \/ /\ pending' = pending \cup {[conn |-> c, tool_id |-> t]}
                      /\ out' = out
                   \/ /\ pending' = pending
                      /\ OneWriteTo(c)
                      /\ Frame(Last(out'[c]))["type"] = "\"tool_response\""
                      /\ Frame(Last(out'[c]))["tool_id"] = t]_vars

\* the chunks of the model that are neither JSON nor an HTTP request line
ParseErrorChunks ==
    {chunk \in Chunks :
        /\ Trim(chunk) # <<>>
        /\ JSONparse(Trim(chunk)).kind = "SyntaxError"
        /\ Head(Trim(chunk)) \notin {"GET /", "HEAD /", "POST /"}}

\* C9: a chunk that is not JSON and not an HTTP probe writes nothing, and
\* leaves the sockets, the clients, every identity, the queue and the
\* pending invocations as they were; it is reported as a parse failure and
\* every open socket still has its frames processed.
C9_ParseFailureIgnored ==
    /\ [][\A c \in Conns, chunk \in ParseErrorChunks :
            OnData(c, chunk) =>
                /\ out' = out
                /\ clients' = clients
                /\ sock' = sock
                /\ clientId' = clientId
                /\ messageQueue' = messageQueue
                /\ pending' = pending
                /\ events' = <<"error:parse">>]_vars
    /\ [](\A c \in Conns :
            sock[c] = "open" =>
                ENABLED (OnData(c, PingChunk) /\ UNCHANGED codecVars))

\* a parse failure has just been reported and a registered socket is still open
C9_Witness ==
    /\ events = <<"error:parse">>
    /\ calls = 0
    /\ \E c \in Conns : sock[c] = "open" /\ InClients(c) /\ clientId[c] = StrA

\* C10: a targeted send writes its payload to at most one socket, and only
\* to a live socket whose identity is the addressed one, both when
\* sendToPhone delivers at once and when a flush delivers a queued entry.
C10_TargetedToAddressee ==
    /\ [][\A id \in ClientIds, data \in {ToString(sends + 1), "0"} :
            SendToPhoneCall(id, data) =>
                /\ Cardinality({c \in Conns : out'[c] # out[c]}) <= 1
                /\ \A c \in Conns :
                     out'[c] # out[c] =>
                        /\ clientId[c] = id
                        /\ sock[c] = "open"
                        /\ OneWriteTo(c)
                        /\ Last(out'[c]).text = <<data, "\n">>]_vars
    /\ [][ListenCallback =>
            \A item \in Range(messageQueue) :
                ~item.isString =>
                    /\ Cardinality({c \in Conns :
                           CountNext(c, <<item.data, "\n">>) # Count(c, <<item.data, "\n">>)}) <= 1
                    /\ \A c \in Conns :
                         CountNext(c, <<item.data, "\n">>) # Count(c, <<item.data, "\n">>) =>
                            /\ clientId[c] = item.clientId
                            /\ sock[c] = "open"]_vars

\* a targeted payload has just been written while two sockets are live
C10_Witness ==
    /\ events = <<"log:sent-to-client">>
    /\ Len(clients) = 2
    /\ \E c \in Conns : out[c] # <<>> /\ Last(out[c]).text = <<"1", "\n">>

\* C11: when the transport is ready and at least one socket is connected,
\* sendToAllPhones writes the payload and a newline exactly once to every
\* connected socket, registered or not, writes to no other socket and leaves
\* the queue unchanged; no payload is ever written twice to a socket, and a
\* payload that has been written is not waiting in the queue.
C11_BroadcastToAllLive ==
    /\ [][(SendToAllPhones /\ transportReady /\ Len(clients) >= 1) =>
            /\ \A c \in Conns :
                  IF \E i \in DOMAIN clients : clients[i] = c
                  THEN /\ Len(out'[c]) = Len(out[c]) + 1
                       /\ SubSeq(out'[c], 1, Len(out[c])) = out[c]
                       /\ Last(out'[c]) = [text |-> <<ToString(sends + 1), "\n">>,
                                           live |-> TRUE]
                  ELSE out'[c] = out[c]
            /\ messageQueue' = messageQueue]_vars
    /\ [](\A c \in Conns, p \in Payloads : Count(c, <<p, "\n">>) <= 1)
    /\ [](\A item \in Range(messageQueue), c \in Conns :
            item.isString => Count(c, item.text) = 0)

\* a broadcast has just reached a registered and an unregistered socket
C11_Witness ==
    /\ events = <<"log:sent">>
    /\ Len(clients) = 2
    /\ messageQueue = <<>>
    /\ \E c, d \in Conns :
        /\ clientId[c] = Undefined
        /\ clientId[d] = StrA
        /\ out[c] = <<[text |-> <<"1", "\n">>, live |-> TRUE]>>
        /\ out[d] = out[c]

\* C12: sendToPhone(id, payload) can be called before start, while ready and
\* after dispose, and has one of two outcomes: if the transport is ready and
\* an open socket holds the identity, the payload is written once to such a
\* socket and the queue is unchanged; otherwise one entry {clientId, data}
\* is appended at the tail of the queue and nothing is written.
C12_TargetedDeliversOrQueues ==
    /\ [][\A id \in ClientIds, data \in {ToString(sends + 1), "0"} :
            SendToPhoneCall(id, data) =>
                IF transportReady /\ \E c \in Conns : sock[c] = "open" /\ clientId[c] = id
                THEN /\ \E c \in Conns :
                          /\ sock[c] = "open"
                          /\ clientId[c] = id
                          /\ OneWriteTo(c)
                          /\ Last(out'[c]).text = <<data, "\n">>
                     /\ messageQueue' = messageQueue
                ELSE /\ out' = out
                     /\ messageQueue' =
                          Append(messageQueue,
                                 [isString |-> FALSE, text |-> <<>>, clientId |-> id,
                                  data |-> data])]_vars
    /\ [](\A id \in ClientIds :
            (server # "crashed" /\ sends + calls + probes < MaxWork
                /\ Len(messageQueue) < MaxQueue) =>
                ENABLED (SendToPhoneCall(id, NextPayload) /\ UNCHANGED codecVars))

\* after a delivered send and a dispose, a second send has just been queued
C12_Witness ==
    /\ events = <<"warn:not-found-queued">>
    /\ server = "closed"
    /\ starts = 1
    /\ ~transportReady
    /\ Len(messageQueue) = 1
    /\ messageQueue[1].data = "2"
    /\ \E c \in Conns : Count(c, <<"1", "\n">>) = 1

\* C13: when the bind of a start() succeeds, the transport is ready, the
\* readiness observer is called exactly once, then the queue is flushed
\* exactly once, then the promise of start() resolves.
C13_StartReadyNotifyFlush ==
    [][(server = "binding" /\ server' = "listening") =>
          /\ transportReady'
          /\ events' = <<"log:listening", "onReady", "flush", "resolve">>]_vars

\* C14: after dispose(), whatever was queued and whatever tool invocations
\* were in flight: the server no longer listens, every socket that was
\* connected is closed, clients and the queue are empty and the transport
\* is not ready; dispose() can be called in every state of a running process.
C14_DisposeReleasesAll ==
    /\ [][events' = <<"log:disposed">> =>
            /\ server' = "closed"
            /\ \A c \in Conns : sock[c] = "open" => sock'[c] = "closed"
            /\ \A c \in Conns : sock'[c] # "open"
            /\ clients' = <<>>
            /\ messageQueue' = <<>>
            /\ ~transportReady']_vars
    /\ [](server # "crashed" => ENABLED (events' = <<"log:disposed">> /\ Dispose))

\* dispose() has just run with a tool invocation in flight and a payload
\* that was queued, never written
C14_Witness ==
    /\ events = <<"log:disposed">>
    /\ pending # {}
    /\ sends = 1
    /\ starts = 1
    /\ messageQueue = <<>>
    /\ \A c \in Conns : out[c] = <<>>
    /\ \E c \in Conns : sock[c] = "closed"

\* C15: when a socket registers an identity that another connected socket
\* already holds, the identity resolves to the socket that registered last,
\* and at most one connected socket holds a given identity.
C15_LastRegistrationWins ==
    /\ [][\A c \in Conns, id \in ClientIds :
            (/\ OnData(c, RegisterChunk[id])
             /\ \E d \in Conns \ {c} : sock[d] = "open" /\ clientId[d] = id) =>
                FindIn(clients', clientId', id) = c]_vars
    /\ [](\A id \in ClientIds :
            Cardinality({c \in Conns : sock[c] = "open" /\ clientId[c] = id}) <= 1)

\* the states of a socket after its 'end' or 'error' event, or its destroy()
Gone == {"ended", "failing", "closed"}

\* C16: after the 'end' or 'error' event of a socket, the socket is not in
\* clients; no later sendToAllPhones, sendToPhone or flush writes to it; and
\* while no connected socket holds its former identity, a sendToPhone to
\* that identity is queued.
C16_ClosedSocketUnreachable ==
    /\ [](\A c \in Conns :
            sock[c] \in Gone => \A i \in DOMAIN clients : clients[i] # c)
    /\ [][(sends' # sends \/ \E k \in DOMAIN events' : events'[k] = "flush") =>
            \A c \in Conns : sock[c] # "open" => out'[c] = out[c]]_vars
    /\ [][\A id \in ClientIds :
            (/\ SendToPhoneCall(id, ToString(sends + 1))
             /\ \E c \in Conns : sock[c] \in Gone /\ clientId[c] = id
             /\ \A d \in Conns : sock[d] = "open" => clientId[d] # id) =>
                /\ out' = out
                /\ Len(messageQueue') = Len(messageQueue) + 1
                /\ Last(messageQueue').clientId = id
                /\ Last(messageQueue').data = ToString(sends + 1)]_vars

\* a payload for the identity of an ended socket has just been queued while
\* the transport listens and another socket is connected
C16_Witness ==
    /\ events = <<"warn:not-found-queued">>
    /\ server = "listening"
    /\ Len(clients) = 1
    /\ \E c \in Conns :
        /\ sock[c] = "ended"
        /\ clientId[c] = StrA
        /\ Last(messageQueue).clientId = StrA

\* chunks that carry one well-formed JSON document of no recognized type
UnknownChunks ==
    {<<"{", "\"type\"", ":", "\"ping\"", "}", "\n">>, <<"7", "\n">>, <<"\"A\"">>}

\* C17: a well-formed JSON frame of no recognized type writes to no socket
\* and leaves the sockets, clients, every identity, the queue and the
\* pending invocations unchanged; it is logged as unknown.
C17_UnknownTypeIgnored ==
    [][\A c \in Conns, chunk \in UnknownChunks :
        OnData(c, chunk) =>
            /\ out' = out
            /\ clients' = clients
            /\ sock' = sock
            /\ clientId' = clientId
            /\ messageQueue' = messageQueue
            /\ pending' = pending
            /\ events' = <<"warn:unknown">>]_vars

\* a frame of unknown type has just been logged on a registered socket
\* while a payload waits in the queue
C17_Witness ==
    /\ events = <<"warn:unknown">>
    /\ messageQueue # <<>>
    /\ \E c \in Conns : sock[c] = "open" /\ clientId[c] = StrB

\* C18: one pass of flushMessageQueue over the queue: a targeted entry is
\* written, once, to a connected socket that holds its identity and is
\* removed from the queue if and only if such a socket exists when the
\* flush runs; an entry that is not delivered is written nowhere and stays
\* in the queue, and the entries that stay keep their relative order.
C18_FlushPass ==
    [][(events' # <<>> /\ Head(events') = "flush") =>
        LET resolves(item) ==
                \E c \in Conns : sock[c] = "open" /\ clientId[c] = item.clientId
            delivered(item) ==
                IF item.isString THEN clients # <<>> ELSE resolves(item)
            text(item) == IF item.isString THEN item.text ELSE <<item.data, "\n">>
            got(item) == {c \in Conns : CountNext(c, text(item)) # Count(c, text(item))}
        IN  /\ \A item \in Range(messageQueue) :
                  ~item.isString =>
                      /\ resolves(item) <=> item \notin Range(messageQueue')
                      /\ resolves(item) <=> got(item) # {}
                      /\ Cardinality(got(item)) <= 1
                      /\ \A c \in got(item) :
                            /\ sock[c] = "open"
                            /\ clientId[c] = item.clientId
                            /\ CountNext(c, text(item)) = Count(c, text(item)) + 1
            /\ \A item \in Range(messageQueue) :
                  ~delivered(item) => got(item) = {}
            /\ messageQueue' = SelectSeq(messageQueue, LAMBDA item : ~delivered(item))]_vars

\* C19: when a flush runs, a broadcast entry of the queue is written to
\* every socket connected at that moment and is removed from the queue,
\* also when no socket is connected: no broadcast entry survives a flush.
C19_BroadcastDroppedByFlush ==
    [][(\E k \in DOMAIN events' : events'[k] = "flush") =>
        /\ \A item \in Range(messageQueue) :
              item.isString =>
                  \A c \in Conns :
                      (\E i \in DOMAIN clients : clients[i] = c) =>
                          CountNext(c, item.text) = Count(c, item.text) + 1
        /\ \A item \in Range(messageQueue') : ~item.isString]_vars

\* C20: delivery is first in, first out within a kind: a targeted payload
\* is not written while an earlier targeted payload for the same identity
\* waits in the queue, and a broadcast is not written while an earlier
\* broadcast waits in the queue.
C20_FifoWithinKind ==
    /\ [][\A id \in ClientIds, data \in SendPayloads :
            (/\ SendToPhoneCall(id, data)
             /\ \E item \in Range(messageQueue) : ~item.isString /\ item.clientId = id) =>
                out' = out]_vars
    /\ [][(SendToAllPhones /\ \E item \in Range(messageQueue) : item.isString) =>
            out' = out]_vars

\* C21: no targeted payload is lost or duplicated: a payload taken by
\* sendToPhone is written once to a connected socket that holds its
\* identity or is put once in the queue; an entry of the queue stays there,
\* once, and written nowhere, until a step writes it exactly once to a
\* connected socket that holds its identity and removes it, or dispose()
\* empties the queue; no payload is ever written twice.
C21_TargetedNoLossNoDup ==
    /\ [][\A k \in DOMAIN messageQueue :
            LET item == messageQueue[k]
                text == <<item.data, "\n">>
                kept == Cardinality({m \in DOMAIN messageQueue' : messageQueue'[m] = item})
                got == {c \in Conns : CountNext(c, text) # Count(c, text)}
            IN  ~item.isString =>
                  \/ kept = 1 /\ got = {}
                  \/ /\ kept = 0
                     /\ \E c \in Conns :
                          /\ got = {c}
                          /\ sock[c] = "open"
                          /\ clientId[c] = item.clientId
                          /\ CountNext(c, text) = Count(c, text) + 1
                  \/ /\ events' = <<"log:disposed">>
                     /\ messageQueue' = <<>>
                     /\ got = {}]_vars
    /\ [][\A id \in ClientIds, data \in {ToString(sends + 1), "0"} :
            SendToPhoneCall(id, data) =>
                LET queued == Cardinality({m \in DOMAIN messageQueue' :
                                  ~messageQueue'[m].isString /\ messageQueue'[m].data = data})
                    got == {c \in Conns : CountNext(c, <<data, "\n">>) # Count(c, <<data, "\n">>)}
                IN  \/ queued = 1 /\ got = {}
                    \/ /\ queued = 0
                       /\ \E c \in Conns :
                            /\ got = {c}
                            /\ clientId[c] = id
                            /\ CountNext(c, <<data, "\n">>) = 1]_vars
    /\ [](\A k \in DOMAIN messageQueue :
            /\ \A c \in Conns : ~messageQueue[k].isString =>
                    Count(c, <<messageQueue[k].data, "\n">>) = 0
            /\ \A m \in DOMAIN messageQueue : messageQueue[m] = messageQueue[k] => m = k)
    /\ [](\A c \in Conns, p \in Payloads \cup {"0"} : Count(c, <<p, "\n">>) <= 1)

\* a flush has just delivered the first of two targeted entries, whose
\* identity was registered after it was queued, and kept the second
C21_Witness ==
    /\ events = <<"flush", "log:flushed-targeted">>
    /\ Len(messageQueue) = 1
    /\ messageQueue[1].clientId = StrB
    /\ messageQueue[1].data = "2"
    /\ \E c \in Conns :
        /\ clientId[c] = StrA
        /\ out[c] = <<[text |-> <<"1", "\n">>, live |-> TRUE]>>

\* C22: when several tool invocations of one socket are pending, any of
\* them can complete first; the one that completes appends its own response
\* after everything written to the socket so far and leaves the others
\* pending, so the responses stand on the socket in completion order, and
\* every invocation is answered.
C22_ResponsesInCompletionOrder ==
    /\ [](\A i \in pending :
            server # "crashed" =>
                ENABLED (ToolResolve /\ pending' = pending \ {i}))
    /\ [][\A i \in pending :
            i \notin pending' =>
                /\ pending' = pending \ {i}
                /\ Len(out'[i.conn]) = Len(out[i.conn]) + 1
                /\ SubSeq(out'[i.conn], 1, Len(out[i.conn])) = out[i.conn]
                /\ JSONparse(Trim(Last(out'[i.conn]).text)).obj["tool_id"] = i.tool_id]_vars
    /\ [][\A i \in pending : i \in pending' \/ out'[i.conn] # out[i.conn]]_vars

\* C23: while a tool invocation of a socket is pending, every open socket,
\* that one included, still has its frames handled at once: a
\* register_client frame sets the identity, a tool_request starts a second
\* invocation, a frame of another type is logged, and the pending
\* invocation stays pending.
C23_ServedWhileSuspended ==
    /\ [](\A i \in pending, c \in Conns :
            sock[c] = "open" =>
                /\ ENABLED (OnData(c, RegisterChunk[StrB]) /\ UNCHANGED codecVars)
                /\ ENABLED (OnData(c, PingChunk) /\ UNCHANGED codecVars)
                /\ sends + calls + probes < MaxWork =>
                      ENABLED (OnData(c, ToolChunk[NextToolId]) /\ UNCHANGED codecVars))
    /\ [][\A i \in pending, id \in ClientIds :
            OnData(i.conn, RegisterChunk[id]) =>
                /\ clientId'[i.conn] = id
                /\ pending' = pending
                /\ out' = out]_vars
    /\ [][\A i \in pending, t \in ToolIds :
            OnData(i.conn, ToolChunk[t]) =>
                /\ calls' = calls + 1
                /\ i \in pending'
                /\ \/ /\ pending' = pending \cup {[conn |-> i.conn, tool_id |-> t]}
                      /\ Cardinality(pending') = Cardinality(pending) + 1
                      /\ out' = out
                   \/ /\ pending' = pending
                      /\ events' \in {<<"error:tool">>, <<"error:parse">>}]_vars

\* a socket has just registered while one of its invocations is pending
C23_Witness ==
    /\ events = <<"log:registered">>
    /\ \E i \in pending : sock[i.conn] = "open" /\ clientId[i.conn] = StrB

\* C24: a connected socket holds at most one identity: when a socket that
\* registered one identity registers another, it holds the new one only, a
\* targeted send to any other identity does not resolve to it, and a
\* targeted send to the new identity resolves to it unless a socket that
\* connected earlier holds that identity too.
C24_ReRegistrationMoves ==
    [][\A c \in Conns, a, b \in ClientIds :
        (a # b /\ clientId[c] = a /\ OnData(c, RegisterChunk[b])) =>
            /\ clientId'[c] = b
            /\ \A id \in ClientIds \ {b} : FindIn(clients', clientId', id) # c
            /\ (\A d \in Conns \ {c} : ~(sock[d] = "open" /\ clientId[d] = b)) =>
                  FindIn(clients', clientId', b) = c]_vars

\* a socket that was sent the payload 0 under an identity has just
\* registered, and holds B
C24_Witness ==
    /\ events = <<"log:registered">>
    /\ Len(clients) = 2
    /\ \E c \in Conns :
        /\ clientId[c] = StrB
        /\ sock[c] = "open"
        /\ out[c] = <<[text |-> <<"0", "\n">>, live |-> TRUE]>>
        /\ \A d \in Conns \ {c} : clientId[d] = StrA

\* dispose() has run on an instance that had been started: the server is
\* closed again, or it is bound or binding after a second start(), which
\* a server with a handle takes after a dispose() only
StartedAndDisposed ==
    \/ starts >= 1 /\ server = "closed"
    \/ starts >= 2 /\ server \in {"binding", "listening"}

\* C25: once dispose() has run, the instance never becomes ready again and
\* never listens for connections again, whatever is called on it later.
C25_StoppedIsTerminal ==
    [][StartedAndDisposed => (~transportReady' /\ server' # "listening")]_vars

\* C26: when the bind of start() fails (dispose() may have run before the
\* failure is reported), the transport is not ready and never becomes ready, the readiness observer is not called, no flush runs, and
\* the queue and everything written stay as they were.
C26_BindFailureAborts ==
    /\ [][(server # "crashed" /\ server' = "crashed") =>
            /\ ~transportReady'
            /\ \A k \in DOMAIN events' : events'[k] \notin {"onReady", "flush", "resolve"}
            /\ messageQueue' = messageQueue
            /\ out' = out]_vars
    /\ [][server = "crashed" =>
            /\ server' = "crashed"
            /\ ~transportReady'
            /\ \A k \in DOMAIN events' : events'[k] \notin {"onReady", "flush", "resolve"}
            /\ messageQueue' = messageQueue
            /\ out' = out]_vars
    /\ [](server = "crashed" => ~transportReady)

\* the bind has just failed with a broadcast and a targeted entry queued
C26_Witness ==
    /\ server = "crashed"
    /\ events = <<"uncaught:error">>
    /\ Len(messageQueue) = 2
    /\ messageQueue[1].isString
    /\ ~messageQueue[2].isString

\* chunks that hold blank lines or whitespace only
BlankChunks == {<<"\n">>, <<" ", "\r", "\n">>}

\* C27: a chunk of blank lines or whitespace only is dropped without a
\* trace: the handler returns before parsing, logs nothing, writes nothing,
\* starts no invocation and leaves the sockets, clients, identities and
\* queue as they were.
C27_BlankDiscarded ==
    [][\A c \in Conns, chunk \in BlankChunks :
        OnData(c, chunk) =>
            /\ events' = <<"return:empty">>
            /\ Parsed(chunk) = <<>>
            /\ out' = out
            /\ clients' = clients
            /\ sock' = sock
            /\ clientId' = clientId
            /\ messageQueue' = messageQueue
            /\ pending' = pending]_vars

\* a blank chunk has just been dropped on a registered socket while a
\* payload waits in the queue
C27_Witness ==
    /\ events = <<"return:empty">>
    /\ messageQueue # <<>>
    /\ \E c \in Conns : sock[c] = "open" /\ clientId[c] = StrA

\* C28: nothing is written to a socket after it was closed: every write,
\* a tool_response included, goes to a socket that is open when it is
\* written.
C28_NoWriteAfterClose ==
    \A c \in Conns : \A j \in DOMAIN out[c] : out[c][j].live

\* C29: a flush delivers every targeted entry of the queue whose identity
\* a connected socket holds, whatever its payload (the payload 0 included):
\* the entry is written to such a socket and is no longer in the queue.
C29_FlushDeliversEveryPayload ==
    [][(events' # <<>> /\ Head(events') = "flush") =>
        \A k \in DOMAIN messageQueue :
            (/\ ~messageQueue[k].isString
             /\ \E c \in Conns :
                  sock[c] = "open" /\ clientId[c] = messageQueue[k].clientId) =>
                /\ \A m \in DOMAIN messageQueue' : messageQueue'[m] # messageQueue[k]
                /\ \E c \in Conns :
                      /\ clientId[c] = messageQueue[k].clientId
                      /\ CountNext(c, <<messageQueue[k].data, "\n">>) =
                            Count(c, <<messageQueue[k].data, "\n">>) + 1]_vars

\* C30: whenever the transport is not ready (before the bind of start() has
\* succeeded, or after dispose()), clients is empty and no socket is open;
\* hence a send made while the transport is not ready writes to no socket.
C30_NotReadyNoClients ==
    /\ [](~transportReady =>
            /\ clients = <<>>
            /\ \A c \in Conns : sock[c] # "open")
    /\ [][(sends' # sends /\ ~transportReady) =>
            /\ out' = out
            /\ Len(messageQueue') = Len(messageQueue) + 1]_vars

\* after dispose() closed a socket, a broadcast has just been queued
C30_Witness ==
    /\ ~transportReady
    /\ server = "closed"
    /\ events = <<"warn:queued">>
    /\ \E c \in Conns : sock[c] = "closed" /\ clientId[c] = StrA

\* chunks that carry a tool_request whose tool_id or args is missing or falsy
SkipChunks ==
    {Line(ToolFrame(Undefined, "{}")), Line(ToolFrame("\"t1\"", Undefined)),
     Line(ToolFrame(StrEmpty, "{}")), Line(ToolFrame("\"t1\"", "0"))}

\* C31: a tool_request whose tool_id or args is missing or falsy is
\* accepted and dropped: callTool is not invoked, nothing is written and
\* nothing is logged, and the sockets, clients, identities and queue stay
\* as they were.
C31_IncompleteRequestDropped ==
    /\ [][\A c \in Conns, chunk \in SkipChunks :
            OnData(c, chunk) =>
                /\ events' = <<"return:skipped">>
                /\ pending' = pending
                /\ calls' = calls
                /\ out' = out
                /\ sock' = sock
                /\ clients' = clients
                /\ clientId' = clientId
                /\ messageQueue' = messageQueue]_vars
    /\ [](\A c \in Conns, chunk \in SkipChunks :
            sock[c] = "open" => ENABLED (OnData(c, chunk) /\ UNCHANGED codecVars))

\* an incomplete tool_request has just been dropped on a registered socket
\* while an earlier invocation of the socket is pending
C31_Witness ==
    /\ events = <<"return:skipped">>
    /\ \E i \in pending : sock[i.conn] = "open" /\ clientId[i.conn] = StrA

\* the chunk of a register_client frame whose clientId is the number 7
BadRegisterChunk ==
    <<"{", "\"type\"", ":", "\"register_client\"", ",", "\"clientId\"", ":", "7", "}", "\n">>

\* C32: a register_client frame whose clientId is not a string leaves the
\* identity of the socket, a registered one included, as it was; it is
\* logged as a message of unknown type, and nothing is written, queued or
\* invoked.
C32_NonStringIdentityIgnored ==
    [][\A c \in Conns :
        OnData(c, BadRegisterChunk) =>
            /\ clientId' = clientId
            /\ events' = <<"warn:unknown">>
            /\ out' = out
            /\ pending' = pending
            /\ messageQueue' = messageQueue
            /\ clients' = clients
            /\ sock' = sock
            /\ \A id \in ClientIds :
                  FindIn(clients', clientId', id) = FindIn(clients, clientId, id)]_vars

\* a message of unknown type has just been logged while both sockets are
\* registered and a targeted payload has been delivered
C32_Witness ==
    /\ events = <<"warn:unknown">>
    /\ Len(clients) = 2
    /\ \A c \in Conns : clientId[c] \in {StrA, StrB}
    /\ \E c \in Conns : out[c] = <<[text |-> <<"0", "\n">>, live |-> TRUE]>>

====
